---- MODULE Spec2Model ----
(***************************************************************************)
(* Model of lib/orchard/parallel/chain.py: run_chains_parallel dispatches  *)
(* n_chains search chains onto a process pool, polls their futures, folds  *)
(* finished results into a running aggregate, drains a progress queue and  *)
(* returns the sorted merge, or re-raises the exception of a failed chain. *)
(***************************************************************************)
EXTENDS Integers, Sequences, FiniteSets, TLC

(* ---------------------------- bounds ----------------------------------- *)
\* largest setup_data.n_chains explored
MaxChains == 3
\* largest setup_data.poolsize explored
MaxPool == 2
\* largest model_data.beam_width explored
MaxBeam == 1
\* longest list of trees one chain returns
MaxTrees == 1
\* largest score of a returned tree
MaxScore == 1
\* largest value of a chain's explored and cut counters
MaxCount == 1
\* largest magnitude of setup_data.seed explored by the seeding specification
MaxBaseSeed == 7

\* constants.MAX_SEED: the modulus of the derived seeds
MAX_SEED == 3

(* ---------------------------- inputs ----------------------------------- *)
None == "None"

\* exceptions a chain's search may raise
SearchErrors == {"ValueError", "RuntimeError"}

\* an error of the manager queue proxy other than queue.Empty
ChannelError == "EOFError"

Scores == 0 .. MaxScore

\* base seeds of the seeding specification: negative, small, beyond MAX_SEED
SeedInputs == (0 - MaxBaseSeed) .. MaxBaseSeed

\* base seeds of the full run: one negative, one beyond MAX_SEED
DispatchSeeds == {0 - 1, MAX_SEED + 1}

RECURSIVE IsAscending(_)
IsAscending(s) ==
    IF Len(s) <= 1 THEN TRUE
    ELSE s[1] <= s[2] /\ IsAscending(Tail(s))

\* score lists a chain can return: run_chain returns its trees sorted by score
TreeLists ==
    { s \in UNION { [1 .. k -> Scores] : k \in 1 .. MaxTrees } : IsAscending(s) }

\* what run_chain does for one chain: return (trees, explored, cut) or raise
ChainOutcomes ==
    [kind : {"return"}, trees : TreeLists, explored : 0 .. MaxCount,
     cut : 0 .. MaxCount, exc : {None}]
    \cup
    [kind : {"raise"}, trees : {<< >>}, explored : {0}, cut : {0},
     exc : SearchErrors]

VARIABLES
    seed,               \* setup_data.seed
    generator,          \* seed of the generator built for the current chain
    actions_sampler,    \* seed the current sampler's node order was drawn with
    chain_args,         \* chain index -> arguments handed to ex.submit
    failures,           \* history: the chains whose search raised, in time order
    n_chains,           \* setup_data.n_chains
    poolsize,           \* setup_data.poolsize
    beam_width,         \* model_data.beam_width
    chain_out,          \* chain index -> outcome of run_chain for that chain
    futures,            \* chain index -> state of the submitted work item
    pushed,             \* chain index -> events the chain has put on the queue
    progress_queue,     \* number of events waiting in the manager queue
    pbar,               \* number of pbar.update() calls
    finished,           \* chain index -> BOOLEAN
    best_trees,         \* sequence of Branch
    branches_explored,
    branches_cut,
    pc,                 \* position of the orchestrator
    i,                  \* loop variable of the orchestrator
    exception,          \* exception unwinding out of run_chains_parallel
    result              \* value returned by run_chains_parallel

vars == << seed, generator, actions_sampler, chain_args, failures,
           n_chains, poolsize, beam_width, chain_out, futures, pushed,
           progress_queue, pbar, finished, best_trees, branches_explored,
           branches_cut, pc, i, exception, result >>

Chains == 0 .. (n_chains - 1)

Submitted == DOMAIN futures

(* ---------------------------- helpers ---------------------------------- *)
\* the Branch objects chain c returns; chain and pos stand for object identity
ChainTrees(c) ==
    [k \in 1 .. Len(chain_out[c].trees) |->
        [score |-> chain_out[c].trees[k], chain |-> c, pos |-> k]]

\* Branch.__lt__
BranchLess(a, b) == a.score < b.score

\* insertion of x after every element that is not greater than it
RECURSIVE InsertSorted(_, _)
InsertSorted(x, s) ==
    IF s = << >> THEN << x >>
    ELSE IF BranchLess(x, Head(s)) THEN << x >> \o s
    ELSE << Head(s) >> \o InsertSorted(x, Tail(s))

\* sorted(best_trees): ascending, stable
RECURSIVE Sorted(_)
Sorted(s) ==
    IF s = << >> THEN << >>
    ELSE InsertSorted(s[Len(s)], Sorted(SubSeq(s, 1, Len(s) - 1)))

\* a local of the dispatch loop before its first assignment
Unbound == 0 - 1

\* a remainder that keeps the sign of the dividend, as in C
ChainSeedTruncating(s, c) ==
    IF s + c + 1 >= 0 THEN (s + c + 1) % MAX_SEED
    ELSE 0 - ((0 - (s + c + 1)) % MAX_SEED)

\* the chain index left out of the derivation
ChainSeedNoIndex(s, c) == (s + 1) % MAX_SEED

\* (setup_data.seed + i + 1) % MAX_SEED
ChainSeed(s, c) == (s + c + 1) % MAX_SEED

\* futures[c].done()
Done(c) == c \in Submitted /\ futures[c] = "FINISHED"

\* a lookup of the exception in the wrong future: the first failed chain's
FutureExceptionOfFirstFailed(c) ==
    IF chain_out[c].exc = None THEN None
    ELSE chain_out[CHOOSE d \in Chains :
                     /\ chain_out[d].exc # None
                     /\ \A e \in Chains : chain_out[e].exc # None => d <= e].exc

\* futures[c].exception()
FutureException(c) == chain_out[c].exc

\* an assignment where the code appends: best_trees = trees
FoldTreesOverwrite(bt, c) == ChainTrees(c)

\* best_trees += trees
FoldTrees(bt, c) == bt \o ChainTrees(c)

\* the two counters mixed up: branches_explored += _branches_cut
FoldExploredSwapped(n, c) == n + chain_out[c].cut

\* branches_explored += _branches_explored
FoldExplored(n, c) == n + chain_out[c].explored

\* branches_cut += _branches_cut
FoldCut(n, c) == n + chain_out[c].cut

\* all(finished)
AllFinished == \A c \in Chains : finished[c]

\* number of worker processes executing a chain
Running == Cardinality({ c \in Submitted : futures[c] = "RUNNING" })

(* ---------------------------- initial state ---------------------------- *)
\* the state on entry to the dispatch loop
Entry ==
    /\ generator = Unbound
    /\ actions_sampler = Unbound
    /\ chain_args = << >>
    /\ failures = << >>
    /\ futures = << >>
    /\ pushed = [c \in Chains |-> 0]
    /\ progress_queue = 0
    /\ pbar = 0
    /\ finished = [c \in Chains |-> FALSE]
    /\ best_trees = << >>
    /\ branches_explored = 0
    /\ branches_cut = 0
    /\ pc = "prepare"
    /\ i = 0
    /\ exception = None
    /\ result = None

Init ==
    /\ seed \in DispatchSeeds
    /\ n_chains \in 1 .. MaxChains
    /\ poolsize \in 1 .. MaxPool
    /\ beam_width \in 1 .. MaxBeam
    /\ chain_out \in [Chains -> ChainOutcomes]
    /\ Entry

(* ---------------------------- orchestrator ----------------------------- *)
\* a dispatch iteration that leaves the node order to be sampled later
PrepareNoSampling ==
    /\ pc = "prepare"
    /\ generator' = ChainSeed(seed, i)
    /\ pc' = "submit"
    /\ UNCHANGED << seed, actions_sampler, chain_args, failures, n_chains,
                    poolsize, beam_width, chain_out, futures, pushed,
                    progress_queue, pbar, finished, best_trees,
                    branches_explored, branches_cut, i, exception, result >>

\* first half of a dispatch iteration: the generator is seeded and the
\* sampler draws its node order with it
Prepare ==
    /\ pc = "prepare"
    /\ generator' = ChainSeed(seed, i)
    /\ actions_sampler' = generator'
    /\ pc' = "submit"
    /\ UNCHANGED << seed, chain_args, failures, n_chains, poolsize,
                    beam_width, chain_out, futures, pushed, progress_queue,
                    pbar, finished, best_trees, branches_explored,
                    branches_cut, i, exception, result >>

\* second half of a dispatch iteration: ex.submit(run_chain, ...)
Submit ==
    /\ pc = "submit"
    /\ futures' = [c \in 0 .. i |-> IF c = i THEN "PENDING" ELSE futures[c]]
    /\ chain_args' =
          [c \in 0 .. i |->
              IF c = i
              THEN [generator |-> generator, actions_sampler |-> actions_sampler]
              ELSE chain_args[c]]
    /\ i' = i + 1
    /\ pc' = IF i + 1 = n_chains THEN "while" ELSE "prepare"
    /\ UNCHANGED << seed, generator, actions_sampler, failures, n_chains,
                    poolsize, beam_width, chain_out, pushed, progress_queue,
                    pbar, finished, best_trees, branches_explored,
                    branches_cut, exception, result >>

\* a loop test that never sees the chains finished
WhileTestNoExit ==
    /\ pc = "while"
    /\ pc' = "for"
    /\ i' = 0
    /\ UNCHANGED << seed, generator, actions_sampler, chain_args, failures,
                    n_chains, poolsize, beam_width, chain_out, futures, pushed,
                    progress_queue, pbar, finished, best_trees,
                    branches_explored, branches_cut, exception, result >>

\* while not all(finished)
WhileTest ==
    /\ pc = "while"
    /\ pc' = IF AllFinished THEN "exit_pool" ELSE "for"
    /\ i' = 0
    /\ UNCHANGED << seed, generator, actions_sampler, chain_args, failures,
                    n_chains, poolsize, beam_width, chain_out, futures, pushed,
                    progress_queue, pbar, finished, best_trees,
                    branches_explored, branches_cut, exception, result >>

\* a poll step that swallows a chain's exception and marks the chain finished
PollChainSwallow ==
    /\ pc = "for"
    /\ IF ~finished[i] /\ Done(i)
       THEN /\ IF FutureException(i) # None
               THEN UNCHANGED << best_trees, branches_explored, branches_cut >>
               ELSE /\ best_trees' = FoldTrees(best_trees, i)
                    /\ branches_explored' = FoldExplored(branches_explored, i)
                    /\ branches_cut' = FoldCut(branches_cut, i)
            /\ finished' = [finished EXCEPT ![i] = TRUE]
       ELSE UNCHANGED << finished, best_trees, branches_explored, branches_cut >>
    /\ i' = i + 1
    /\ pc' = IF i + 1 = n_chains THEN "drain" ELSE "for"
    /\ UNCHANGED << seed, generator, actions_sampler, chain_args, failures,
                    n_chains, poolsize, beam_width, chain_out, futures, pushed,
                    progress_queue, pbar, exception, result >>

\* a poll step that waits for chain i: futures[i].result() without done()
PollChainBlocking ==
    /\ pc = "for"
    /\ finished[i] \/ Done(i)
    /\ IF ~finished[i]
       THEN IF FutureException(i) # None
            THEN /\ exception' = FutureException(i)
                 /\ pc' = "exit_pool"
                 /\ UNCHANGED << i, finished, best_trees, branches_explored,
                                 branches_cut >>
            ELSE /\ best_trees' = FoldTrees(best_trees, i)
                 /\ branches_explored' = FoldExplored(branches_explored, i)
                 /\ branches_cut' = FoldCut(branches_cut, i)
                 /\ finished' = [finished EXCEPT ![i] = TRUE]
                 /\ i' = i + 1
                 /\ pc' = IF i + 1 = n_chains THEN "drain" ELSE "for"
                 /\ UNCHANGED exception
       ELSE /\ i' = i + 1
            /\ pc' = IF i + 1 = n_chains THEN "drain" ELSE "for"
            /\ UNCHANGED << finished, best_trees, branches_explored,
                            branches_cut, exception >>
    /\ UNCHANGED << seed, generator, actions_sampler, chain_args, failures,
                    n_chains, poolsize, beam_width, chain_out, futures, pushed,
                    progress_queue, pbar, result >>

\* a poll step that does not test `not complete`: a finished chain is folded
\* again on every sweep
PollChainRefold ==
    /\ pc = "for"
    /\ IF Done(i)
       THEN IF FutureException(i) # None
            THEN /\ exception' = FutureException(i)
                 /\ pc' = "exit_pool"
                 /\ UNCHANGED << i, finished, best_trees, branches_explored,
                                 branches_cut >>
            ELSE /\ best_trees' = FoldTrees(best_trees, i)
                 /\ branches_explored' = FoldExplored(branches_explored, i)
                 /\ branches_cut' = FoldCut(branches_cut, i)
                 /\ finished' = [finished EXCEPT ![i] = TRUE]
                 /\ i' = i + 1
                 /\ pc' = IF i + 1 = n_chains THEN "drain" ELSE "for"
                 /\ UNCHANGED exception
       ELSE /\ i' = i + 1
            /\ pc' = IF i + 1 = n_chains THEN "drain" ELSE "for"
            /\ UNCHANGED << finished, best_trees, branches_explored,
                            branches_cut, exception >>
    /\ UNCHANGED << seed, generator, actions_sampler, chain_args, failures,
                    n_chains, poolsize, beam_width, chain_out, futures, pushed,
                    progress_queue, pbar, result >>

\* one iteration of: for i, complete in enumerate(finished)
PollChain ==
    /\ pc = "for"
    /\ IF ~finished[i] /\ Done(i)
       THEN IF FutureException(i) # None
            THEN /\ exception' = FutureException(i)
                 /\ pc' = "exit_pool"
                 /\ UNCHANGED << i, finished, best_trees, branches_explored,
                                 branches_cut >>
            ELSE /\ best_trees' = FoldTrees(best_trees, i)
                 /\ branches_explored' = FoldExplored(branches_explored, i)
                 /\ branches_cut' = FoldCut(branches_cut, i)
                 /\ finished' = [finished EXCEPT ![i] = TRUE]
                 /\ i' = i + 1
                 /\ pc' = IF i + 1 = n_chains THEN "drain" ELSE "for"
                 /\ UNCHANGED exception
       ELSE /\ i' = i + 1
            /\ pc' = IF i + 1 = n_chains THEN "drain" ELSE "for"
            /\ UNCHANGED << finished, best_trees, branches_explored,
                            branches_cut, exception >>
    /\ UNCHANGED << seed, generator, actions_sampler, chain_args, failures,
                    n_chains, poolsize, beam_width, chain_out, futures, pushed,
                    progress_queue, pbar, result >>

\* progress_queue.get_nowait() returns an event; pbar.update()
DrainEvent ==
    /\ pc = "drain"
    /\ progress_queue > 0
    /\ progress_queue' = progress_queue - 1
    /\ pbar' = pbar + 1
    /\ pc' = "while"
    /\ UNCHANGED << seed, generator, actions_sampler, chain_args, failures,
                    n_chains, poolsize, beam_width, chain_out, futures, pushed,
                    finished, best_trees, branches_explored, branches_cut, i,
                    exception, result >>

\* pbar.update() placed after the try block: it also runs on Empty
DrainEmptyCounts ==
    /\ pc = "drain"
    /\ progress_queue = 0
    /\ pbar' = pbar + 1
    /\ pc' = "while"
    /\ UNCHANGED << seed, generator, actions_sampler, chain_args, failures,
                    n_chains, poolsize, beam_width, chain_out, futures, pushed,
                    progress_queue, finished, best_trees, branches_explored,
                    branches_cut, i, exception, result >>

\* progress_queue.get_nowait() raises Empty; except Empty: pass
DrainEmpty ==
    /\ pc = "drain"
    /\ progress_queue = 0
    /\ pc' = "while"
    /\ UNCHANGED << seed, generator, actions_sampler, chain_args, failures,
                    n_chains, poolsize, beam_width, chain_out, futures, pushed,
                    progress_queue, pbar, finished, best_trees,
                    branches_explored, branches_cut, i, exception, result >>

\* progress_queue.get_nowait() raises an error that is not Empty: not caught
DrainError ==
    /\ pc = "drain"
    /\ exception' = ChannelError
    /\ pc' = "exit_pool"
    /\ UNCHANGED << seed, generator, actions_sampler, chain_args, failures,
                    n_chains, poolsize, beam_width, chain_out, futures, pushed,
                    progress_queue, pbar, finished, best_trees,
                    branches_explored, branches_cut, i, result >>

\* the work items the pool still has to complete
Outstanding == { c \in Submitted : futures[c] # "FINISHED" }

\* ProcessPoolExecutor.__exit__: shutdown(wait=True), then leave the with blocks
ExitPool ==
    /\ pc = "exit_pool"
    /\ Outstanding = {}
    /\ pc' = IF exception = None THEN "return" ELSE "raised"
    /\ UNCHANGED << seed, generator, actions_sampler, chain_args, failures,
                    n_chains, poolsize, beam_width, chain_out, futures, pushed,
                    progress_queue, pbar, finished, best_trees,
                    branches_explored, branches_cut, i, exception, result >>

\* return sorted(best_trees), branches_explored, branches_cut
Return ==
    /\ pc = "return"
    /\ result' = << Sorted(best_trees), branches_explored, branches_cut >>
    /\ pc' = "returned"
    /\ UNCHANGED << seed, generator, actions_sampler, chain_args, failures,
                    n_chains, poolsize, beam_width, chain_out, futures, pushed,
                    progress_queue, pbar, finished, best_trees,
                    branches_explored, branches_cut, i, exception >>

(* ---------------------------- pool and workers ------------------------- *)
\* a pool that starts a process for every queued work item
WorkerStartUnbounded(c) ==
    /\ c \in Submitted
    /\ futures[c] = "PENDING"
    /\ \A d \in Submitted : d < c => futures[d] # "PENDING"
    /\ futures' = [futures EXCEPT ![c] = "RUNNING"]
    /\ UNCHANGED << seed, generator, actions_sampler, chain_args, failures,
                    n_chains, poolsize, beam_width, chain_out, pushed,
                    progress_queue, pbar, finished, best_trees,
                    branches_explored, branches_cut, pc, i, exception, result >>

\* a free worker process takes the oldest queued work item
WorkerStart(c) ==
    /\ c \in Submitted
    /\ futures[c] = "PENDING"
    /\ \A d \in Submitted : d < c => futures[d] # "PENDING"
    /\ Running < poolsize
    /\ futures' = [futures EXCEPT ![c] = "RUNNING"]
    /\ UNCHANGED << seed, generator, actions_sampler, chain_args, failures,
                    n_chains, poolsize, beam_width, chain_out, pushed,
                    progress_queue, pbar, finished, best_trees,
                    branches_explored, branches_cut, pc, i, exception, result >>

\* the search fills one beam slot and puts one event on the progress queue
WorkerPush(c) ==
    /\ c \in Submitted
    /\ futures[c] = "RUNNING"
    /\ pushed[c] < beam_width
    /\ pushed' = [pushed EXCEPT ![c] = pushed[c] + 1]
    /\ progress_queue' = progress_queue + 1
    /\ UNCHANGED << seed, generator, actions_sampler, chain_args, failures,
                    n_chains, poolsize, beam_width, chain_out, futures, pbar,
                    finished, best_trees, branches_explored, branches_cut, pc,
                    i, exception, result >>

\* run_chain returns model.best_trees(), branches_explored(), branches_cut()
WorkerReturn(c) ==
    /\ c \in Submitted
    /\ futures[c] = "RUNNING"
    /\ chain_out[c].kind = "return"
    /\ pushed[c] = beam_width
    /\ futures' = [futures EXCEPT ![c] = "FINISHED"]
    /\ UNCHANGED << seed, generator, actions_sampler, chain_args, failures,
                    n_chains, poolsize, beam_width, chain_out, pushed,
                    progress_queue, pbar, finished, best_trees,
                    branches_explored, branches_cut, pc, i, exception, result >>

\* model.search() raises; the exception is stored in the future
WorkerRaise(c) ==
    /\ c \in Submitted
    /\ futures[c] = "RUNNING"
    /\ chain_out[c].kind = "raise"
    /\ futures' = [futures EXCEPT ![c] = "FINISHED"]
    /\ failures' = Append(failures, c)
    /\ UNCHANGED << seed, generator, actions_sampler, chain_args, n_chains,
                    poolsize, beam_width, chain_out, pushed, progress_queue,
                    pbar, finished, best_trees, branches_explored,
                    branches_cut, pc, i, exception, result >>

Next ==
    \/ Prepare
    \/ Submit
    \/ WhileTest
    \/ PollChain
    \/ DrainEvent
    \/ DrainEmpty
    \/ DrainError
    \/ ExitPool
    \/ Return
    \/ \E c \in Chains : WorkerStart(c)
    \/ \E c \in Chains : WorkerPush(c)
    \/ \E c \in Chains : WorkerReturn(c)
    \/ \E c \in Chains : WorkerRaise(c)

Spec == Init /\ [][Next]_vars

(* ---------------------------- scheduling ------------------------------ *)
\* the steps of the thread that runs run_chains_parallel
Orchestrator ==
    \/ Prepare
    \/ Submit
    \/ WhileTest
    \/ PollChain
    \/ DrainEvent
    \/ DrainEmpty
    \/ DrainError
    \/ ExitPool
    \/ Return

\* the steps of the pool on behalf of chain c
Worker(c) ==
    \/ WorkerStart(c)
    \/ WorkerPush(c)
    \/ WorkerReturn(c)
    \/ WorkerRaise(c)

\* chain outcomes that differ in how the chain ends only
LiveOutcomes ==
    { o \in ChainOutcomes :
        /\ o.explored = 0
        /\ o.cut = 0
        /\ o.exc \in {None, "ValueError"}
        /\ \A k \in DOMAIN o.trees : o.trees[k] = 0
        /\ Len(o.trees) <= 1 }

LiveInit ==
    /\ seed = MAX_SEED + 1
    /\ n_chains \in 1 .. MaxChains
    /\ poolsize \in 1 .. MaxPool
    /\ beam_width \in 1 .. MaxBeam
    /\ chain_out \in [Chains -> LiveOutcomes]
    /\ Entry

\* the orchestrator never stops of its own accord, every search ends and the
\* pool hands queued chains to free workers
FairSpec ==
    /\ LiveInit
    /\ [][Next]_vars
    /\ WF_vars(Orchestrator)
    /\ \A c \in 0 .. (MaxChains - 1) : WF_vars(Worker(c))

\* the orchestrator never stops of its own accord; a search may run forever
OrchFairSpec ==
    /\ LiveInit
    /\ [][Next]_vars
    /\ WF_vars(Orchestrator)

(* ---------------------------- seeding alone ---------------------------- *)
\* the dispatch loop on its own, over the whole range of base seeds
SeedInit ==
    /\ seed \in SeedInputs
    /\ n_chains \in 1 .. MaxChains
    /\ poolsize = 1
    /\ beam_width = 1
    /\ chain_out = [c \in Chains |->
                       [kind |-> "return", trees |-> << 0 >>, explored |-> 0,
                        cut |-> 0, exc |-> None]]
    /\ Entry

SeedNext ==
    \/ Prepare
    \/ Submit

SeedSpec == SeedInit /\ [][SeedNext]_vars

(* ---------------------------- properties ------------------------------- *)
RECURSIVE SumExplored(_)
SumExplored(k) ==
    IF k = 0 THEN 0 ELSE SumExplored(k - 1) + chain_out[k - 1].explored

RECURSIVE SumCut(_)
SumCut(k) == IF k = 0 THEN 0 ELSE SumCut(k - 1) + chain_out[k - 1].cut

\* the trees of chains 0 .. k-1, in chain index order
RECURSIVE ConcatTrees(_)
ConcatTrees(k) ==
    IF k = 0 THEN << >> ELSE ConcatTrees(k - 1) \o ChainTrees(k - 1)

Occurrences(s, x) == Cardinality({ p \in DOMAIN s : s[p] = x })

Returned == pc = "returned"

Raised == pc = "raised"

\* the run was aborted by the poll loop observing a failed chain
WorkerAbort == exception \in SearchErrors

\* C1: a successful run returns total_explored and total_cut equal to the
\* sums of the explored and cut counters of all n_chains chains.
C1_TotalsAreSums ==
    Returned =>
        /\ result[2] = SumExplored(n_chains)
        /\ result[3] = SumCut(n_chains)

\* C1 witness: a successful run of several chains with non-zero counters in
\* which the chains were folded out of index order.
C1_Witness ==
    /\ Returned
    /\ n_chains >= 2
    /\ result[2] >= 2
    /\ result[3] >= 1
    /\ result[2] # result[3]
    /\ best_trees[1].chain # 0

\* C2: a successful run returns ranked_solutions ascending by score and
\* holding every solution of every chain exactly once.
C2_SortedMerge ==
    Returned =>
        /\ \A p \in 1 .. (Len(result[1]) - 1) :
              result[1][p].score <= result[1][p + 1].score
        /\ Len(result[1]) = Len(ConcatTrees(n_chains))
        /\ \A p \in DOMAIN ConcatTrees(n_chains) :
              Occurrences(result[1], ConcatTrees(n_chains)[p]) = 1

\* C2 witness: a successful run in which sorting moved a solution: the chains
\* were folded in an order that is not ascending by score.
C2_Witness ==
    /\ Returned
    /\ n_chains >= 2
    /\ result[1] # best_trees

\* C3: a result is returned only when every chain completed without error;
\* once a chain has raised, the run never returns a result.
C3_NoPartialSuccess ==
    /\ pc \in {"return", "returned"} =>
          \A c \in Chains :
              finished[c] /\ Done(c) /\ chain_out[c].kind = "return"
    /\ (\E c \in Chains : Done(c) /\ chain_out[c].kind = "raise") =>
          pc \notin {"return", "returned"} /\ result = None

\* C3 witness: the run raised a chain's error after other chains had been
\* folded into the aggregate.
C3_Witness ==
    /\ Raised
    /\ WorkerAbort
    /\ \E c \in Chains : finished[c]
    /\ best_trees # << >>

\* C4: when a run returns successfully the orchestrator has taken exactly
\* beam_width * n_chains events from the progress queue.
C4_ProgressTotalExact == Returned => pbar = beam_width * n_chains

\* the result of the run in which every chain completes before the first sweep
CanonicalResult ==
    << Sorted(ConcatTrees(n_chains)), SumExplored(n_chains), SumCut(n_chains) >>

\* C5: every successful run on the same inputs returns the same triple; the
\* run that folds the chains in index order returns CanonicalResult, so every
\* other run must return it too.
C5_Deterministic == Returned => result = CanonicalResult

\* C6: in the returned ranked_solutions, solutions of equal score are ordered
\* by chain index and, within a chain, by the chain's own output order.
C6_TieBreakBySubmission ==
    Returned =>
        \A p, q \in DOMAIN result[1] :
            (p < q /\ result[1][p].score = result[1][q].score) =>
                \/ result[1][p].chain < result[1][q].chain
                \/ /\ result[1][p].chain = result[1][q].chain
                   /\ result[1][p].pos < result[1][q].pos

\* C7: once the poll loop has observed a failed chain, the error can reach
\* the caller without any other chain having to finish first.
C7_AbortDoesNotWait ==
    (pc = "exit_pool" /\ WorkerAbort) => ENABLED ExitPool

\* C8: a failure of the progress queue other than Empty never ends the run:
\* the run ends with the aggregate or with a failing worker's error.
C8_ChannelErrorNotSurfaced == Raised => exception # ChannelError

\* C9: when the run is aborted because the poll loop observed failed chain i,
\* the error delivered to the caller is the error raised in chain i's search.
C9_OriginalErrorPreserved ==
    (Raised /\ WorkerAbort) =>
        /\ Done(i)
        /\ chain_out[i].kind = "raise"
        /\ exception = chain_out[i].exc

\* C9 witness: the run raised the observed chain's error while another chain
\* had failed with a different error.
C9_Witness ==
    /\ Raised
    /\ WorkerAbort
    /\ \E d \in Chains :
          /\ d < i
          /\ Done(d)
          /\ chain_out[d].kind = "raise"
          /\ chain_out[d].exc # exception

\* C10: the error surfaced for a failed chain identifies that chain: no other
\* chain of the run surfaces the same error.
C10_ErrorIdentifiesChain ==
    (Raised /\ WorkerAbort) =>
        \A d \in Chains : chain_out[d].exc = exception => d = i

Abs(x) == IF x < 0 THEN 0 - x ELSE x

\* C11: when n_chains is at most MAX_SEED, chains with different indices are
\* handed generators with different derived seeds.
C11_SeedsDistinct ==
    n_chains <= MAX_SEED =>
        \A c, d \in DOMAIN chain_args :
            c # d => chain_args[c].generator # chain_args[d].generator

\* C11 witness: MAX_SEED chains are dispatched and the derived seeds wrap
\* around the modulus between two of them.
C11_Witness ==
    /\ n_chains = MAX_SEED
    /\ DOMAIN chain_args = Chains
    /\ \E c \in Chains :
          c > 0 /\ chain_args[c].generator < chain_args[c - 1].generator

\* C20: every derived seed lies in 0 .. MAX_SEED-1 and is the one value of
\* that range congruent to base_seed + i + 1 modulo MAX_SEED, for negative
\* base seeds and base seeds beyond MAX_SEED alike.
C20_SeedInRange ==
    \A c \in DOMAIN chain_args :
        /\ chain_args[c].generator >= 0
        /\ chain_args[c].generator < MAX_SEED
        /\ \E k \in (0 - (Abs(seed) + c + 1)) .. (Abs(seed) + c + 1) :
              chain_args[c].generator = seed + c + 1 - k * MAX_SEED

\* C20 witness: a chain is dispatched whose base_seed + i + 1 is negative and
\* below -MAX_SEED.
C20_Witness ==
    \E c \in DOMAIN chain_args :
        /\ seed + c + 1 < 0 - MAX_SEED
        /\ chain_args[c].generator > 0

\* C12: at most poolsize chains run at any time; a chain submitted to a busy
\* pool is queued, and submitting it is always possible.
C12_BoundedFanOut ==
    /\ Running <= poolsize
    /\ pc = "submit" => ENABLED Submit

\* C12 witness: more chains than workers, every worker busy, a chain queued
\* behind them and another chain still to be submitted.
C12_Witness ==
    /\ n_chains > poolsize
    /\ Running = poolsize
    /\ pc = "submit"
    /\ \E c \in Submitted : futures[c] = "PENDING"

\* C15: once the poll loop has observed a failed chain, no queued chain is
\* started any more.
C15_NoStartAfterAbort ==
    [][WorkerAbort =>
          \A c \in Submitted : ~(futures[c] = "PENDING" /\ futures'[c] = "RUNNING")]_vars

\* C16: when several chains fail, the error raised to the caller is the error
\* of the chain whose search raised first in time.
C16_FirstFailureInTime ==
    (Raised /\ WorkerAbort /\ Len(failures) > 1) =>
        exception = chain_out[failures[1]].exc

\* C17: chains are submitted in ascending index order, each with a generator
\* seeded and a node order sampled for it before the submission, and the poll
\* loop runs only once every chain is submitted.
C17_DispatchOrdered ==
    /\ \E k \in 0 .. n_chains : Submitted = 0 .. (k - 1)
    /\ DOMAIN chain_args = Submitted
    /\ \A c \in Submitted :
          /\ chain_args[c].generator = ChainSeed(seed, c)
          /\ chain_args[c].actions_sampler = chain_args[c].generator
    /\ pc \in {"prepare", "submit"} =>
          /\ Submitted = 0 .. (i - 1)
          /\ \A c \in Chains : ~finished[c]
    /\ pc = "submit" => generator = ChainSeed(seed, i) /\ actions_sampler = generator
    /\ pc \notin {"prepare", "submit"} => Submitted = Chains

\* C17 witness: chain 1 is about to be submitted, prepared with its own seed,
\* while chain 0 has already run to completion in the pool.
C17_Witness ==
    /\ pc = "submit"
    /\ i = 1
    /\ futures[0] = "FINISHED"
    /\ generator # ChainSeed(seed, 0)

RECURSIVE SumFinishedExplored(_)
SumFinishedExplored(k) ==
    IF k = 0 THEN 0
    ELSE SumFinishedExplored(k - 1)
         + (IF finished[k - 1] THEN chain_out[k - 1].explored ELSE 0)

RECURSIVE SumFinishedCut(_)
SumFinishedCut(k) ==
    IF k = 0 THEN 0
    ELSE SumFinishedCut(k - 1)
         + (IF finished[k - 1] THEN chain_out[k - 1].cut ELSE 0)

RECURSIVE SumFinishedTrees(_)
SumFinishedTrees(k) ==
    IF k = 0 THEN 0
    ELSE SumFinishedTrees(k - 1)
         + (IF finished[k - 1] THEN Len(chain_out[k - 1].trees) ELSE 0)

\* the trees of chain c stand in best_trees as one block, in the chain's order
IsBlockOf(c) ==
    \E o \in 0 .. Len(best_trees) :
        /\ o + Len(chain_out[c].trees) <= Len(best_trees)
        /\ SubSeq(best_trees, o + 1, o + Len(chain_out[c].trees)) = ChainTrees(c)

AggregateOfFinished ==
    /\ branches_explored = SumFinishedExplored(n_chains)
    /\ branches_cut = SumFinishedCut(n_chains)
    /\ Len(best_trees) = SumFinishedTrees(n_chains)
    /\ \A c \in Chains :
          finished[c] =>
              /\ Done(c)
              /\ chain_out[c].kind = "return"
              /\ IsBlockOf(c)
              /\ \A k \in DOMAIN ChainTrees(c) :
                    Occurrences(best_trees, ChainTrees(c)[k]) = 1

\* C18: in every state the running aggregate is the fold of exactly the
\* chains marked finished, each folded once; only chains that completed
\* without error are marked, and a mark is never removed.
C18_RunningAggregate ==
    /\ []AggregateOfFinished
    /\ [][\A c \in Chains : finished[c] => finished'[c]]_vars

\* C18 witness: between two sweeps some chains are folded with non-zero
\* counters and another chain is not yet folded.
C18_Witness ==
    /\ pc = "while"
    /\ branches_explored >= 1
    /\ branches_cut >= 1
    /\ \E c, d \in Chains : finished[c] /\ ~finished[d] /\ d < c

RECURSIVE SumPushed(_)
SumPushed(k) == IF k = 0 THEN 0 ELSE SumPushed(k - 1) + pushed[k - 1]

\* C19: the progress indicator counts exactly the events taken from the
\* queue: events taken plus events waiting equal the events pushed, so none
\* is counted twice and an empty poll counts nothing.
C19_ProgressNotInflated ==
    /\ progress_queue >= 0
    /\ pbar + progress_queue = SumPushed(n_chains)
    /\ pbar <= SumPushed(n_chains)

\* C19 witness: after an empty poll and a successful one, an event has been
\* taken and another is still waiting.
C19_Witness ==
    /\ pbar >= 1
    /\ progress_queue >= 1
    /\ pc = "drain"
    /\ \E c \in Chains : pushed[c] = 0

\* C13: when every search ends and the pool is fair, the run ends: it returns
\* with every chain folded, or it raises; it returns only then.
C13_Terminates ==
    /\ <>(Returned \/ Raised)
    /\ [](Returned => AllFinished /\ exception = None)
    /\ [](Raised => exception # None /\ result = None)

\* C13 witness: a run of more chains than workers has returned.
C13_Witness ==
    /\ Returned
    /\ n_chains > poolsize

\* C14: whatever the other chains do, also if one runs forever, a chain that
\* completed is eventually folded unless the run is aborted, a chain that
\* failed eventually aborts the run, and a waiting progress event is
\* eventually taken while chains remain to be folded.
C14_NoStarvation ==
    /\ \A c \in 0 .. (MaxChains - 1) :
          (Done(c) /\ chain_out[c].kind = "return")
              ~> ((c \in Chains /\ finished[c]) \/ exception # None)
    /\ \A c \in 0 .. (MaxChains - 1) :
          (Done(c) /\ chain_out[c].kind = "raise") ~> (exception # None)
    /\ \A k \in 0 .. (MaxChains * MaxBeam) :
          (progress_queue > 0 /\ pbar = k)
              ~> (pbar > k \/ exception # None \/ AllFinished)

\* C14 witness: a chain is folded and an event taken while a chain of lower
\* index is still running.
C14_Witness ==
    /\ pbar >= 1
    /\ \E c, d \in Chains :
          c < d /\ futures[c] = "RUNNING" /\ finished[d]

====
